---- MODULE Spec2Model ----
(***************************************************************************)
(* Ticket lifecycle of the maintenance tracker: the Express handlers of    *)
(* routes/ticket.js, routes/planner.js and routes/technician.js over the   *)
(* tickets table reached through db.js, with the role guard of             *)
(* middleware/requireRole.js.                                              *)
(*                                                                         *)
(* A request is received (the synchronous middleware chain and the part of *)
(* the handler up to its first await db.query), stays in flight while the  *)
(* store executes its statement, and is answered by the continuation that  *)
(* runs after its last await.  Each SQL statement is executed atomically   *)
(* by the store.                                                           *)
(*                                                                         *)
(* Spec serves the requests of all six routes one after the other.         *)
(* SpecConc lets requests of the two assign routes overlap: their          *)
(* statements interleave while up to MaxInFlight of them await the store.  *)
(*                                                                         *)
(* last is the request answered by the latest step, with its response and  *)
(* the target of the sendNotificationToUser call it made; it is NoAnswer   *)
(* after a step that answered no request.                                  *)
(*                                                                         *)
(* subscriptionsPerUser is the object exported by the subscriptions module *)
(* that all route modules share.  A sendNotificationToUser call is not     *)
(* awaited by its handler: it stays in dispatches while it awaits          *)
(* webPush.sendNotification, and done is the call that the latest step     *)
(* completed.  SpecList adds the dashboards and SpecPush the subscribe     *)
(* route and the deliveries.                                               *)
(***************************************************************************)
EXTENDS Integers, Sequences, FiniteSets, TLC

\* ------------------------------------------------------------------ bounds
\* rows the tickets table may hold
MaxTickets == 1
\* requests that may be in flight (awaiting the store) at the same time
MaxInFlight == 2
\* sendNotificationToUser calls that may be awaiting a delivery at the same time
MaxDispatch == 2

\* ------------------------------------------------------------ JS values
\* Values the handlers inspect dynamically (typeof, Array.isArray, property
\* reads) are tagged with their JavaScript type.
Undefined == [t |-> "undefined"]
Str(s) == [t |-> "string", s |-> s]
Num(n) == [t |-> "number", n |-> n]
Arr(s) == [t |-> "array", items |-> s]
Obj(f) == [t |-> "object", fields |-> f]

\* v.p : reading a property of an array or object that lacks it gives undefined
Prop(v, p) ==
  CASE v.t = "object" -> IF p \in DOMAIN v.fields THEN v.fields[p] ELSE Undefined
    [] v.t = "array"  -> IF p = "length" THEN Num(Len(v.items)) ELSE Undefined
    [] OTHER          -> Undefined

\* v[i], zero-based as in JavaScript
At(v, i) ==
  IF v.t = "array" /\ i + 1 \in 1..Len(v.items) THEN v.items[i + 1] ELSE Undefined

\* if (v), !v, v || w
Truthy(v) ==
  CASE v.t = "undefined" -> FALSE
    [] v.t = "number"    -> v.n # 0
    [] v.t = "string"    -> v.s # ""
    [] OTHER             -> TRUE

\* subscriptionsPerUser[v]: the property key a value is coerced to
KeyOf(v) == IF v.t = "string" THEN v.s ELSE "undefined"

\* ------------------------------------------------------------ identities
NULL == "NULL"
HQ == "Pune"
Locations == {"Pune", "Mumbai"}
Roles == {"normal_user", "technician", "planner", "admin"}

\* The identity claims carried by the verified tokens of the callers
\* (payload signed at login: globalId, department, role = department,
\* location).  Every request of Spec, SpecConc, SpecList and SpecPush carries
\* the token of one of Users, so authenticateJWT sets req.user to the claim
\* and calls next.
\* N1 is the payload login signs for a users row whose department is NULL
\* (role and department both null), L1 a payload signed with the same secret
\* that has a department and no role, G0 one that has no globalId; "" is an
\* absent or null property.
Claim ==
  [ U1 |-> [globalId |-> "U1", role |-> "normal_user", department |-> "normal_user",
            location |-> "Pune"],
    T1 |-> [globalId |-> "T1", role |-> "technician", department |-> "technician",
            location |-> "Pune"],
    P1 |-> [globalId |-> "P1", role |-> "planner", department |-> "planner",
            location |-> "Pune"],
    A1 |-> [globalId |-> "A1", role |-> "admin", department |-> "admin",
            location |-> "Pune"],
    A2 |-> [globalId |-> "A2", role |-> "admin", department |-> "admin",
            location |-> "Mumbai"],
    T2 |-> [globalId |-> "T2", role |-> "technician", department |-> "technician",
            location |-> "Mumbai"],
    N1 |-> [globalId |-> "N1", role |-> "", department |-> "", location |-> "Pune"],
    L1 |-> [globalId |-> "L1", role |-> "", department |-> "planner", location |-> "Pune"],
    G0 |-> [globalId |-> "", role |-> "technician", department |-> "technician",
            location |-> "Pune"] ]
Users == DOMAIN Claim \ {"N1", "L1", "G0"}

\* ------------------------------------------------------------ request inputs
\* req.body.ticketId: absent (0) or an id; ids above Len(tickets) name no row
NoId == 0
TicketIds == 0..MaxTickets
\* req.body.executerId: absent ("") or a globalId
ExecuterIds == {"", "T1"}
\* req.body.completion_note
Notes == {"", "fixed"}
\* req.body of /ticket/submit
SubmitBodies ==
  { [category |-> "Facility Service", building_no |-> "B1", area_code |-> "A1",
     sub_area |-> "S1", keyword |-> "leak"],
    [category |-> "Facility", building_no |-> "B1", area_code |-> "A1",
     sub_area |-> "S1", keyword |-> ""],
    [category |-> "Facility Service", building_no |-> "", area_code |-> "A1",
     sub_area |-> "S1", keyword |-> "leak"],
    [category |-> "Facility", building_no |-> "B1", area_code |-> "",
     sub_area |-> "S1", keyword |-> "leak"],
    [category |-> "Facility Service", building_no |-> "B1", area_code |-> "A1",
     sub_area |-> "", keyword |-> "leak"],
    [category |-> "", building_no |-> "", area_code |-> "",
     sub_area |-> "", keyword |-> ""],
    [category |-> "Plumbing", building_no |-> "", area_code |-> "",
     sub_area |-> "", keyword |-> ""] }
NoBody ==
  [category |-> "", building_no |-> "", area_code |-> "", sub_area |-> "", keyword |-> ""]

VARIABLES tickets, pending, last, subscriptionsPerUser, dispatches, done
\* users is the users table, session the req.session of the browser that runs
\* the password-reset flow, masterData the object stored in masterData.json;
\* otpVerified is a history variable: the globalIds for which verify-otp has
\* answered with the setPassword step.
VARIABLES users, session, otpVerified, masterData
accounts == <<users, session, otpVerified, masterData>>
vars == <<tickets, pending, last, subscriptionsPerUser, dispatches, done,
          users, session, otpVerified, masterData>>

\* ------------------------------------------------------------ tickets table
\* GETDATE(): a column holds NULL or a time; the time itself is not modelled
Now == "ts"

\* NewRow with the location column filled with the headquarters location
\* instead of the caller's
NewRowAtHQ(gid, category, b, loc) ==
  [ global_id |-> gid, category |-> category,
    building_no |-> b.building_no, area_code |-> b.area_code,
    sub_area |-> b.sub_area, keyword |-> b.keyword,
    location |-> HQ, status |-> "Open",
    assigned_to |-> NULL, planner_id |-> NULL, completion_note |-> NULL,
    created_at |-> Now, updated_at |-> Now, started_at |-> NULL, completed_at |-> NULL ]

\* A row; its id is its position in the table (identity column).
NewRow(gid, category, b, loc) ==
  [ global_id |-> gid, category |-> category,
    building_no |-> b.building_no, area_code |-> b.area_code,
    sub_area |-> b.sub_area, keyword |-> b.keyword,
    location |-> loc, status |-> "Open",
    assigned_to |-> NULL, planner_id |-> NULL, completion_note |-> NULL,
    created_at |-> Now, updated_at |-> Now, started_at |-> NULL, completed_at |-> NULL ]

\* x || null
OrNull(x) == IF x = "" THEN NULL ELSE x

\* the WHERE clause "id = ?" with, when scope # NoScope, "AND location = ?"
NoScope == "*"
Hit(tk, id, scope) ==
  { i \in 1..Len(tk) : i = id /\ (scope = NoScope \/ tk[i].location = scope) }

\* SELECT global_id FROM tickets WHERE id = ?
SelectGlobalId(tk, id) ==
  IF id \in 1..Len(tk) THEN <<Obj([global_id |-> Str(tk[id].global_id)])>> ELSE <<>>

\* db.query resolves to [result.recordset, result]; mssql gives an UPDATE or
\* INSERT no recordset (undefined) and rowsAffected = [n].
query(recordset, n) ==
  Arr(<<recordset, Obj([recordset |-> recordset, rowsAffected |-> Arr(<<Num(n)>>)])>>)

\* ------------------------------------------------------------ helpers of the routes
\* technician.js getAffectedCount
getAffectedCount(result) ==
  CASE result.t = "undefined" -> Undefined
    [] Prop(result, "affectedRows").t = "number" -> Prop(result, "affectedRows")
    [] Prop(result, "rowsAffected").t = "array"
         /\ At(Prop(result, "rowsAffected"), 0).t = "number"
       -> At(Prop(result, "rowsAffected"), 0)
    [] Prop(result, "rowsAffected").t = "number" -> Prop(result, "rowsAffected")
    [] OTHER -> Undefined

\* middleware/requireRole.js: "next", or the status it answers with.
\* NoUser is req.user before any middleware has set it.
NoUser == [globalId |-> "", role |-> "", department |-> "", location |-> ""]

\* requireRole without the membership test
requireRoleAnyRole(allowedRoles, user) ==
  IF user = NoUser THEN "401" ELSE "next"

\* requireRole reading req.user.role only
requireRoleByRoleOnly(allowedRoles, user) ==
  IF user = NoUser THEN "401"
  ELSE IF user.role \notin allowedRoles THEN "403"
  ELSE "next"

requireRole(allowedRoles, user) ==
  LET \* req.user.role || req.user.department
      userRole == IF user.role # "" THEN user.role ELSE user.department
  IN  IF user = NoUser THEN "401"
      ELSE IF userRole \notin allowedRoles THEN "403"
      ELSE "next"

\* the role lists the routes pass to requireRole
SubmitRoles == {"normal_user", "technician", "planner", "admin"}
AssignRoles == {"planner", "admin"}
WorkRoles == {"technician", "planner", "admin"}

\* /ticket/submit: "Normalize category"
normalizeCategory(category) ==
  IF category = "Facility" \/ category = "Facility Service" THEN "Facility Service"
  ELSE IF category = "" THEN "Other"
  ELSE category

\* missingFacilityFields rejecting only when all four fields are empty
missingAllFacilityFields(category, b) ==
  category = "Facility Service"
    /\ (b.building_no = "" /\ b.area_code = "" /\ b.sub_area = "" /\ b.keyword = "")

\* /ticket/submit: "Facility Service requires specific fields"
missingFacilityFields(category, b) ==
  category = "Facility Service"
    /\ (b.building_no = "" \/ b.area_code = "" \/ b.sub_area = "" \/ b.keyword = "")

\* plannerScope without the headquarters exception
plannerScopeNoOverride(user) == user.location

\* planner.js /planner/assign: the location the UPDATE is restricted to
plannerScope(user) ==
  IF ~(user.role = "admin" /\ user.location = HQ) THEN user.location ELSE NoScope

\* technician.js /technician/start and /technician/complete: the same
technicianScope(user) ==
  IF user.role # "admin" THEN user.location ELSE NoScope

\* SetAssigned leaving the status column as it is
SetAssignedKeepingStatus(row, executerId, assignerGlobalId) ==
  [row EXCEPT !.assigned_to = executerId, !.planner_id = assignerGlobalId,
              !.updated_at = Now]

\* the SET clauses of the four UPDATE statements
SetAssigned(row, executerId, assignerGlobalId) ==
  [row EXCEPT !.assigned_to = executerId, !.planner_id = assignerGlobalId,
              !.status = "Assigned", !.updated_at = Now]
SetCompletedByTicketRoute(row) ==
  [row EXCEPT !.status = "Completed", !.updated_at = Now]
SetStartedWithoutTimestamp(row) ==
  [row EXCEPT !.status = "In Progress", !.updated_at = Now]
SetStarted(row) ==
  [row EXCEPT !.status = "In Progress", !.started_at = Now, !.updated_at = Now]
SetCompleted(row, completion_note) ==
  [row EXCEPT !.status = "Completed", !.completion_note = OrNull(completion_note),
              !.updated_at = Now, !.completed_at = Now]

\* ------------------------------------------------------------ requests
SUBMIT == "/ticket/submit"
TICKET_ASSIGN == "/ticket/assign"
TICKET_COMPLETE == "/ticket/complete"
PLANNER_ASSIGN == "/planner/assign"
TECH_START == "/technician/start"
TECH_COMPLETE == "/technician/complete"
AssignRoutes == {TICKET_ASSIGN, PLANNER_ASSIGN}
StartRoutes == {TECH_START}
CompleteRoutes == {TICKET_COMPLETE, TECH_COMPLETE}

\* what the handlers answer with
OkPlanner == "redirect /dashboard/planner"
OkTechnician == "redirect /dashboard/technician"
OkUser == "redirect /dashboard/user?message=Ticket submitted successfully."
ErrFields == "redirect /dashboard/user?error=Missing required Facility Service fields."
ErrSubmit == "redirect /dashboard/user?error=Failed to submit ticket."
SuccessResponses == {OkPlanner, OkTechnician, OkUser}

\* A request: its route, the caller whose token it carries, its body, the
\* statement it awaits (pc), the ticket owner /ticket/complete read, and two
\* history fields: rows (how many rows its UPDATE or INSERT changed, -1 before)
\* and rival (an assign of the same ticket, in flight together with this one,
\* has been answered with success).
\* scope is a third history field: the location filter of the statement the
\* request ran (NoScope when it had none, "" before any statement);
\* subscription is the body of /notifications/subscribe; list and technicians
\* are the rows a dashboard has read and renders.
\* setCookie is the payload of the token cookie the response of /login sets
\* (NoUser when it sets none) and allData the object /dashboard/master/update
\* has read from masterData.json, with its own entry replaced; committed is a
\* history field of such a request: the entries that other requests have
\* written to the file while this one was in flight, the latest for each key.
\* cred is what the request presents to authenticateJWT, recorded by SpecAuth:
\* its Authorization header (scheme "" when it has none), its token cookie
\* ("" when it has none) and whether it declares that it accepts JSON.
NoSubscription == [endpoint |-> "", keys |-> ""]
NoCred == [authorization |-> [scheme |-> "", token |-> ""], cookie |-> "", json |-> FALSE]
Request(route, c, tid, ex, note, body, pc) ==
  [ route |-> route, caller |-> c, ticketId |-> tid, executerId |-> ex,
    completion_note |-> note, body |-> body, pc |-> pc,
    ticketOwner |-> "", rows |-> -1, rival |-> FALSE,
    scope |-> "", subscription |-> NoSubscription, list |-> {}, technicians |-> {},
    cred |-> NoCred, setCookie |-> NoUser, allData |-> << >>, committed |-> {} ]
NoRequest == Request("", "", NoId, "", "", NoBody, "")
NoNotification == "none"

\* the state predicate of a request answered: res.redirect / res.status().send,
\* with target the argument of the sendNotificationToUser call made, if any
Answered(r, resp, target) == [ req |-> r, resp |-> resp, notify |-> target ]

MarkRival(q, r, resp) ==
  IF r.route \in AssignRoutes /\ resp \in SuccessResponses
       /\ q.route \in AssignRoutes /\ q.ticketId = r.ticketId
  THEN [q EXCEPT !.rival = TRUE] ELSE q

NoAnswer == Answered(NoRequest, "", NoNotification)

\* ------------------------------------------------------------ notifications
\* userSubsOf falling back to the list of some owner when the target has none
userSubsOfAnyone(subs, target) ==
  IF target \in DOMAIN subs THEN subs[target]
  ELSE IF DOMAIN subs = {} THEN <<>>
  ELSE subs[CHOOSE k \in DOMAIN subs : TRUE]

\* subscriptionsPerUser[targetGlobalId] || []
userSubsOf(subs, target) ==
  IF target \in DOMAIN subs THEN subs[target] ELSE <<>>

\* A sendNotificationToUser call: its target, the position i in the target's
\* list of the entry whose delivery it awaits, and the deliveries it has
\* attempted so far, each with the endpoint and whether it succeeded.
Call(id, target, i, attempts) ==
  [ id |-> id, target |-> target, i |-> i, attempts |-> attempts ]
NoCall == Call(0, NoNotification, 0, <<>>)
FreeId == CHOOSE n \in 1..(MaxDispatch + 1) : \A c \in dispatches : c.id # n

\* sendNotificationToUser with every delivery settled before it returns
sendNotificationToUserRunToCompletion(target) ==
  LET userSubs == userSubsOf(subscriptionsPerUser, target)
  IN  /\ dispatches' = dispatches
      /\ done' = IF target = NoNotification THEN NoCall
                 ELSE Call(0, target, Len(userSubs) + 1,
                           [ i \in 1..Len(userSubs) |->
                               [endpoint |-> userSubs[i].endpoint, ok |-> TRUE] ])

\* sendNotificationToUser(message, target), called and not awaited: it runs up
\* to its first await.  With no entry for the target the loop body never
\* runs and the call completes at once; otherwise it calls
\* webPush.sendNotification for the first entry and awaits it.
sendNotificationToUser(target) ==
  IF target = NoNotification
  THEN /\ dispatches' = dispatches
       /\ done' = NoCall
  ELSE IF userSubsOf(subscriptionsPerUser, target) = <<>>
  THEN /\ dispatches' = dispatches
       /\ done' = Call(0, target, 1, <<>>)
  ELSE /\ Cardinality(dispatches) < MaxDispatch
       /\ dispatches' = dispatches \cup {Call(FreeId, target, 1, <<>>)}
       /\ done' = NoCall

\* a request answered in the turn that received it
Respond(r, resp) ==
  /\ last' = Answered(r, resp, NoNotification)
  /\ done' = NoCall
  /\ UNCHANGED <<tickets, pending, subscriptionsPerUser, dispatches>>

\* a request rejected before its first statement
Reject(r, resp) ==
  /\ Respond(r, resp)
  /\ UNCHANGED accounts

\* a request issues its first statement and awaits it
Await(r) ==
  /\ r \notin pending
  /\ pending' = pending \cup {r}
  /\ last' = NoAnswer
  /\ done' = NoCall
  /\ UNCHANGED <<tickets, subscriptionsPerUser, dispatches>>
  /\ UNCHANGED accounts

\* the continuation of an awaited statement answers the request
Answer(r, r2, resp, target) ==
  /\ last' = Answered(r2, resp, target)
  /\ pending' = { MarkRival(q, r, resp) : q \in pending \ {r} }
  /\ sendNotificationToUser(target)
  /\ UNCHANGED subscriptionsPerUser
  /\ UNCHANGED accounts

\* the continuation of an awaited statement issues the next one
Continue(r, r2) ==
  /\ pending' = (pending \ {r}) \cup {r2}
  /\ last' = NoAnswer
  /\ done' = NoCall
  /\ UNCHANGED <<subscriptionsPerUser, dispatches>>
  /\ UNCHANGED accounts

\* ------------------------------------------------------------ accounts and master data
\* bcrypt.hash(password, 10) and bcrypt.compare(password, hash)
hash(password) ==
  CASE password = "pw1" -> "$2b$10$pw1"
    [] password = "pw2" -> "$2b$10$pw2"
    [] OTHER -> "$2b$10$"
\* bcrypt.compare accepting every password
compareAnything(password, hashed) == TRUE
compare(password, hashed) == hashed = hash(password)

\* The users table when the server starts: U1 has completed the
\* registration, A1 was entered by an admin and has not (its password is
\* NULL); only U1 has an e-mail address.
UsersTable ==
  [ U1 |-> [global_id |-> "U1", department |-> "normal_user", location |-> "Pune",
            email |-> "u1@wika", password |-> hash("pw1")],
    A1 |-> [global_id |-> "A1", department |-> "admin", location |-> "Pune",
            email |-> NULL, password |-> NULL] ]

\* public/data/masterData.json: an object with one entry for each location
MasterFile == [pune |-> "p0", Mumbai |-> "m0"]

Init ==
  /\ tickets = <<>>
  /\ pending = {}
  /\ last = NoAnswer
  /\ subscriptionsPerUser = << >>
  /\ dispatches = {}
  /\ done = NoCall
  /\ users = UsersTable
  /\ session = Undefined
  /\ otpVerified = {}
  /\ masterData = MasterFile

\* ------------------------------------------------------------ POST /ticket/submit
SubmitReceive(c, b) ==
  LET user == Claim[c]
      category == normalizeCategory(b.category)
      r == Request(SUBMIT, c, NoId, "", "", b, "INSERT")
  IN  IF requireRole(SubmitRoles, user) # "next" THEN Reject(r, requireRole(SubmitRoles, user))
      ELSE IF user.globalId = "" THEN Reject(r, "401")
      ELSE IF missingFacilityFields(category, b) THEN Reject(r, ErrFields)
      ELSE /\ Len(tickets) + Cardinality({q \in pending : q.route = SUBMIT}) < MaxTickets
           /\ Await(r)

SubmitInsert(r, ok) ==
  LET user == Claim[r.caller]
      category == normalizeCategory(r.body.category)
      b == [ building_no |-> OrNull(r.body.building_no), area_code |-> OrNull(r.body.area_code),
             sub_area |-> OrNull(r.body.sub_area), keyword |-> OrNull(r.body.keyword) ]
  IN  /\ r \in pending /\ r.route = SUBMIT /\ r.pc = "INSERT"
      /\ IF ~ok
         THEN /\ Answer(r, r, ErrSubmit, NoNotification)
              /\ UNCHANGED tickets
         ELSE /\ Len(tickets) < MaxTickets
              /\ tickets' = Append(tickets, NewRow(user.globalId, category, b, OrNull(user.location)))
              /\ Answer(r, [r EXCEPT !.rows = 1], OkUser, user.globalId)

\* ------------------------------------------------------------ POST /ticket/assign
\* result.rowsAffected && result.rowsAffected[0] === 0
zeroRowsAffected(result) ==
  /\ Truthy(Prop(result, "rowsAffected"))
  /\ At(Prop(result, "rowsAffected"), 0).t = "number"
  /\ At(Prop(result, "rowsAffected"), 0).n = 0

TicketAssignReceive(c, tid, ex) ==
  LET user == Claim[c]
      r == Request(TICKET_ASSIGN, c, tid, ex, "", NoBody, "UPDATE")
  IN  IF requireRole(AssignRoles, user) # "next" THEN Reject(r, requireRole(AssignRoles, user))
      ELSE IF tid = NoId \/ ex = "" THEN Reject(r, "400")
      ELSE Await(r)

TicketAssignUpdate(r, ok) ==
  LET user == Claim[r.caller]
      hit == Hit(tickets, r.ticketId, NoScope)
      result == query(Undefined, Cardinality(hit))
      r2 == [r EXCEPT !.rows = Cardinality(hit), !.scope = NoScope]
  IN  /\ r \in pending /\ r.route = TICKET_ASSIGN /\ r.pc = "UPDATE"
      /\ IF ~ok
         THEN /\ Answer(r, r, "500", NoNotification)
              /\ UNCHANGED tickets
         ELSE /\ tickets' = [ i \in 1..Len(tickets) |->
                  IF i \in hit THEN SetAssigned(tickets[i], r.executerId, user.globalId) ELSE tickets[i] ]
              /\ IF zeroRowsAffected(result)
                 THEN Answer(r, r2, "404", NoNotification)
                 ELSE Answer(r, r2, OkPlanner, r.executerId)

\* ------------------------------------------------------------ POST /planner/assign
PlannerAssignReceive(c, tid, ex) ==
  LET user == Claim[c]
      r == Request(PLANNER_ASSIGN, c, tid, ex, "", NoBody, "UPDATE")
  IN  IF requireRole(AssignRoles, user) # "next" THEN Reject(r, requireRole(AssignRoles, user))
      ELSE IF tid = NoId \/ ex = "" THEN Reject(r, "400")
      ELSE Await(r)

PlannerAssignUpdate(r, ok) ==
  LET user == Claim[r.caller]
      hit == Hit(tickets, r.ticketId, plannerScope(user))
      result == query(Undefined, Cardinality(hit))
      r2 == [r EXCEPT !.rows = Cardinality(hit), !.scope = plannerScope(user)]
  IN  /\ r \in pending /\ r.route = PLANNER_ASSIGN /\ r.pc = "UPDATE"
      /\ IF ~ok
         THEN /\ Answer(r, r, "500", NoNotification)
              /\ UNCHANGED tickets
         ELSE /\ tickets' = [ i \in 1..Len(tickets) |->
                  IF i \in hit THEN SetAssigned(tickets[i], r.executerId, user.globalId) ELSE tickets[i] ]
              /\ IF zeroRowsAffected(result)
                 THEN Answer(r, r2, "404", NoNotification)
                 ELSE Answer(r, r2, OkPlanner, r.executerId)

\* ------------------------------------------------------------ POST /ticket/complete
TicketCompleteReceive(c, tid) ==
  LET user == Claim[c]
      r == Request(TICKET_COMPLETE, c, tid, "", "", NoBody, "SELECT")
  IN  IF requireRole(WorkRoles, user) # "next" THEN Reject(r, requireRole(WorkRoles, user))
      ELSE IF tid = NoId THEN Reject(r, "400")
      ELSE Await(r)

TicketCompleteSelect(r, ok) ==
  LET rows == SelectGlobalId(tickets, r.ticketId)
      result == query(Arr(rows), Len(rows))
      \* result.recordset || result
      ticketRows == IF Truthy(Prop(result, "recordset")) THEN Prop(result, "recordset") ELSE result
      empty == ~Truthy(ticketRows)
                 \/ (Prop(ticketRows, "length").t = "number" /\ Prop(ticketRows, "length").n = 0)
      \* ticketRows[0].global_id
      ticketOwner == Prop(At(ticketRows, 0), "global_id")
  IN  /\ r \in pending /\ r.route = TICKET_COMPLETE /\ r.pc = "SELECT"
      /\ UNCHANGED tickets
      /\ IF ~ok THEN Answer(r, r, "500", NoNotification)
         ELSE IF empty THEN Answer(r, r, "404", NoNotification)
         ELSE IF At(ticketRows, 0).t = "undefined" THEN Answer(r, r, "500", NoNotification)
         ELSE Continue(r, [r EXCEPT !.pc = "UPDATE", !.ticketOwner = KeyOf(ticketOwner)])

TicketCompleteUpdate(r, ok) ==
  LET hit == Hit(tickets, r.ticketId, NoScope)
  IN  /\ r \in pending /\ r.route = TICKET_COMPLETE /\ r.pc = "UPDATE"
      /\ IF ~ok
         THEN /\ Answer(r, r, "500", NoNotification)
              /\ UNCHANGED tickets
         ELSE /\ tickets' = [ i \in 1..Len(tickets) |->
                  IF i \in hit THEN SetCompletedByTicketRoute(tickets[i]) ELSE tickets[i] ]
              /\ Answer(r, [r EXCEPT !.rows = Cardinality(hit), !.scope = NoScope],
                        OkPlanner, r.ticketOwner)

\* ------------------------------------------------------------ POST /technician/start
\* typeof affected === 'number' && affected === 0
affectedIsZero(affected) == affected.t = "number" /\ affected.n = 0

\* rows?.[0]?.global_id
creatorOf(rows) == Prop(At(rows, 0), "global_id")

TechStartReceive(c, tid) ==
  LET user == Claim[c]
      r == Request(TECH_START, c, tid, "", "", NoBody, "UPDATE")
  IN  IF requireRole(WorkRoles, user) # "next" THEN Reject(r, requireRole(WorkRoles, user))
      ELSE IF tid = NoId THEN Reject(r, "400")
      ELSE Await(r)

TechStartUpdate(r, ok) ==
  LET user == Claim[r.caller]
      hit == Hit(tickets, r.ticketId, technicianScope(user))
      \* const [result] = await db.query(query, params)
      result == At(query(Undefined, Cardinality(hit)), 0)
      affected == getAffectedCount(result)
      r2 == [r EXCEPT !.rows = Cardinality(hit), !.scope = technicianScope(user)]
  IN  /\ r \in pending /\ r.route = TECH_START /\ r.pc = "UPDATE"
      /\ IF ~ok
         THEN /\ Answer(r, r, "500", NoNotification)
              /\ UNCHANGED tickets
         ELSE /\ tickets' = [ i \in 1..Len(tickets) |->
                  IF i \in hit THEN SetStarted(tickets[i]) ELSE tickets[i] ]
              /\ IF affectedIsZero(affected)
                 THEN Answer(r, r2, "404", NoNotification)
                 ELSE Continue(r, [r2 EXCEPT !.pc = "SELECT"])

TechStartSelect(r, ok) ==
  LET sel == SelectGlobalId(tickets, r.ticketId)
      \* const [rows] = await db.query(...)
      rows == At(query(Arr(sel), Len(sel)), 0)
      ticketCreatorId == creatorOf(rows)
  IN  /\ r \in pending /\ r.route = TECH_START /\ r.pc = "SELECT"
      /\ UNCHANGED tickets
      /\ IF ~ok THEN Answer(r, r, "500", NoNotification)
         ELSE IF Truthy(ticketCreatorId) THEN Answer(r, r, OkTechnician, KeyOf(ticketCreatorId))
         ELSE Answer(r, r, OkTechnician, NoNotification)

\* ------------------------------------------------------------ POST /technician/complete
TechCompleteReceive(c, tid, note) ==
  LET user == Claim[c]
      r == Request(TECH_COMPLETE, c, tid, "", note, NoBody, "UPDATE")
  IN  IF requireRole(WorkRoles, user) # "next" THEN Reject(r, requireRole(WorkRoles, user))
      ELSE IF tid = NoId THEN Reject(r, "400")
      ELSE Await(r)

TechCompleteUpdate(r, ok) ==
  LET user == Claim[r.caller]
      hit == Hit(tickets, r.ticketId, technicianScope(user))
      result == At(query(Undefined, Cardinality(hit)), 0)
      affected == getAffectedCount(result)
      r2 == [r EXCEPT !.rows = Cardinality(hit), !.scope = technicianScope(user)]
  IN  /\ r \in pending /\ r.route = TECH_COMPLETE /\ r.pc = "UPDATE"
      /\ IF ~ok
         THEN /\ Answer(r, r, "500", NoNotification)
              /\ UNCHANGED tickets
         ELSE /\ tickets' = [ i \in 1..Len(tickets) |->
                  IF i \in hit THEN SetCompleted(tickets[i], r.completion_note) ELSE tickets[i] ]
              /\ IF affectedIsZero(affected)
                 THEN Answer(r, r2, "404", NoNotification)
                 ELSE Continue(r, [r2 EXCEPT !.pc = "SELECT"])

TechCompleteSelect(r, ok) ==
  LET sel == SelectGlobalId(tickets, r.ticketId)
      rows == At(query(Arr(sel), Len(sel)), 0)
      ticketCreatorId == creatorOf(rows)
  IN  /\ r \in pending /\ r.route = TECH_COMPLETE /\ r.pc = "SELECT"
      /\ UNCHANGED tickets
      /\ IF ~ok THEN Answer(r, r, "500", NoNotification)
         ELSE IF Truthy(ticketCreatorId) THEN Answer(r, r, OkTechnician, KeyOf(ticketCreatorId))
         ELSE Answer(r, r, OkTechnician, NoNotification)

\* ------------------------------------------------------------ GET /dashboard/...
\* The four dashboards are the handlers of app.js: they are registered before
\* the routers are mounted and end the response, so the handlers the routers
\* define for /dashboard/planner, /dashboard/admin and /dashboard/technician
\* are never reached.  They pass authenticateJWT only.
DASH_PLANNER == "/dashboard/planner"
DASH_ADMIN == "/dashboard/admin"
DASH_USER == "/dashboard/user"
DASH_TECHNICIAN == "/dashboard/technician"
Dashboards == {DASH_PLANNER, DASH_ADMIN, DASH_USER, DASH_TECHNICIAN}
Render == "render"
ErrDashboard == "Failed to load dashboard"

\* the rows a SELECT returns, each row standing for its id, in id order
Recordset(ids) ==
  Arr([ k \in 1..Cardinality(ids) |->
          Num(CHOOSE x \in ids : Cardinality({y \in ids : y < x}) = k - 1) ])
IdsOf(rows) == { rows.items[k].n : k \in 1..Len(rows.items) }

\* app.js runQuery: the rows, whatever shape db.query resolves to
runQuery(res) ==
  IF res.t = "array"
  THEN IF Len(res.items) > 0 /\ At(res, 0).t = "array" THEN At(res, 0) ELSE res
  ELSE IF Truthy(res) /\ Prop(res, "recordset").t = "array" THEN Prop(res, "recordset")
  ELSE Arr(<<>>)

\* app.js locationFilterSQL / locationFilterParams: 'WHERE t.location = ?'
locationFilter(user) == user.location

\* the WHERE clause of the SELECT each dashboard runs on tickets
dashboardWhere(route, user, row) ==
  CASE route \in {DASH_PLANNER, DASH_ADMIN} ->
         locationFilter(user) = NoScope \/ row.location = locationFilter(user)
    [] route = DASH_USER ->
         /\ (row.global_id = user.globalId \/ row.assigned_to = user.globalId)
         /\ row.location = user.location
    [] route = DASH_TECHNICIAN ->
         row.assigned_to = user.globalId /\ row.location = user.location

\* SELECT ... FROM users WHERE department IN ('technician','planner','admin')
\* AND location = ?; the users table holds the callers
Staff == { u \in Users : Claim[u].role \in {"technician", "planner", "admin"} }
selectTechnicians(user) == { u \in Staff : Claim[u].location = user.location }

DashboardReceive(c, route) ==
  Await(Request(route, c, NoId, "", "", NoBody, "SELECT"))

DashboardSelect(r, ok) ==
  LET user == Claim[r.caller]
      ids == { i \in 1..Len(tickets) : dashboardWhere(r.route, user, tickets[i]) }
      rows == runQuery(query(Recordset(ids), Cardinality(ids)))
      scope == IF r.route \in {DASH_PLANNER, DASH_ADMIN} THEN locationFilter(user)
               ELSE user.location
      r2 == [r EXCEPT !.list = IdsOf(rows), !.rows = Len(rows.items), !.scope = scope]
  IN  /\ r \in pending /\ r.route \in Dashboards /\ r.pc = "SELECT"
      /\ UNCHANGED tickets
      /\ IF ~ok THEN Answer(r, r, ErrDashboard, NoNotification)
         ELSE IF r.route = DASH_PLANNER THEN Continue(r, [r2 EXCEPT !.pc = "TECHNICIANS"])
         ELSE Answer(r, r2, Render, NoNotification)

\* the second statement of /dashboard/planner
DashboardTechnicians(r, ok) ==
  LET user == Claim[r.caller]
  IN  /\ r \in pending /\ r.route = DASH_PLANNER /\ r.pc = "TECHNICIANS"
      /\ UNCHANGED tickets
      /\ IF ~ok THEN Answer(r, r, ErrDashboard, NoNotification)
         ELSE Answer(r, [r EXCEPT !.technicians = selectTechnicians(user)], Render, NoNotification)

\* ------------------------------------------------------------ POST /notifications/subscribe
\* The handler of ticket.js, the first router mounted; those of
\* technician.js and admin.js for the same path do the same.
SUBSCRIBE == "/notifications/subscribe"
\* exists comparing the delivery keys as well
existsComparingKeys(list, subscription) ==
  \E i \in 1..Len(list) :
    list[i].endpoint = subscription.endpoint /\ list[i].keys = subscription.keys

\* subscriptionsPerUser[userId].some((sub) => sub.endpoint === subscription.endpoint)
exists(list, subscription) ==
  \E i \in 1..Len(list) : list[i].endpoint = subscription.endpoint

\* push replacing the list by the new entry
pushReplacing(list, subscription) == <<subscription>>

\* subscriptionsPerUser[userId].push(subscription)
push(list, subscription) == Append(list, subscription)

\* The handler has no await: the duplicate check and the push run in one
\* turn of the event loop.
Subscribe(c, subscription) ==
  LET user == Claim[c]
      userId == user.globalId
      r == [Request(SUBSCRIBE, c, NoId, "", "", NoBody, "") EXCEPT !.subscription = subscription]
      list == userSubsOf(subscriptionsPerUser, userId)
      list2 == IF exists(list, subscription) THEN list ELSE push(list, subscription)
  IN  IF userId = "" THEN Reject(r, "401")
      ELSE /\ subscriptionsPerUser' =
                [ k \in DOMAIN subscriptionsPerUser \cup {userId} |->
                    IF k = userId THEN list2 ELSE subscriptionsPerUser[k] ]
           /\ last' = Answered(r, "201", NoNotification)
           /\ done' = NoCall
           /\ UNCHANGED <<tickets, pending, dispatches>>
           /\ UNCHANGED accounts

\* ------------------------------------------------------------ deliveries
\* afterAttempt leaving the loop when the delivery failed
afterAttemptStoppingOnFailure(i, n, ok) == IF ok THEN i + 1 ELSE n + 1

\* for (const sub of userSubs) { try { await ... } catch { console.warn } }:
\* the position the loop goes to after the delivery to entry i of n settled
afterAttempt(i, n, ok) == i + 1

\* Deliver answering 500 when the delivery failed
DeliverSurfacingFailure(c, ok) ==
  /\ c \in dispatches
  /\ dispatches' = dispatches \ {c}
  /\ done' = NoCall
  /\ last' = IF ok THEN NoAnswer ELSE Answered(NoRequest, "500", NoNotification)
  /\ UNCHANGED <<tickets, pending, subscriptionsPerUser>>
  /\ UNCHANGED accounts

\* Deliver removing the entry whose delivery failed from the registry
DeliverDroppingFailed(c, ok) ==
  LET userSubs == subscriptionsPerUser[c.target]
      kept == [ i \in 1..(Len(userSubs) - 1) |->
                  IF i < c.i THEN userSubs[i] ELSE userSubs[i + 1] ]
  IN  /\ c \in dispatches
      /\ dispatches' = dispatches \ {c}
      /\ done' = NoCall
      /\ last' = NoAnswer
      /\ subscriptionsPerUser' =
           IF ok THEN subscriptionsPerUser
           ELSE [subscriptionsPerUser EXCEPT ![c.target] = kept]
      /\ UNCHANGED <<tickets, pending>>
      /\ UNCHANGED accounts

\* The delivery a sendNotificationToUser call awaits settles: resolved (ok) or
\* rejected and caught.  The loop reads the target's array, the one subscribe
\* pushes to, for the next entry; the call completes when there is none.
Deliver(c, ok) ==
  LET userSubs == userSubsOf(subscriptionsPerUser, c.target)
      attempts == Append(c.attempts, [endpoint |-> userSubs[c.i].endpoint, ok |-> ok])
      next == afterAttempt(c.i, Len(userSubs), ok)
      c2 == Call(c.id, c.target, next, attempts)
  IN  /\ c \in dispatches
      /\ IF next <= Len(userSubs)
         THEN /\ dispatches' = (dispatches \ {c}) \cup {c2}
              /\ done' = NoCall
         ELSE /\ dispatches' = dispatches \ {c}
              /\ done' = c2
      /\ last' = NoAnswer
      /\ UNCHANGED <<tickets, pending, subscriptionsPerUser>>
      /\ UNCHANGED accounts

\* ------------------------------------------------------------ authenticateJWT
\* A token stands for the payload it was signed with: the token of a globalId
\* of Claim verifies to that claim, any other one ("bad": forged or expired)
\* makes jwt.verify call back with an error.
AuthTokens == {"bad", "U1", "P1", "N1", "L1"}
Creds ==
  [ authorization :
      {[scheme |-> "", token |-> ""], [scheme |-> "Basic", token |-> "P1"]}
        \cup [scheme : {"Bearer"}, token : AuthTokens \cup {""}],
    cookie : AuthTokens \cup {""},
    json : BOOLEAN ]

\* jwt.verify(token, process.env.JWT_SECRET, (err, user) => ...)
verify(token) ==
  IF token \in DOMAIN Claim THEN [err |-> FALSE, user |-> Claim[token]]
  ELSE [err |-> TRUE, user |-> NoUser]

\* authHeader.startsWith("Bearer ") ? authHeader.split(" ")[1] : undefined
bearer(authorization) ==
  IF authorization.scheme = "Bearer" THEN authorization.token ELSE ""

\* what a middleware does with the token it chose: the response it ends the
\* request with, or "next" with req.user set
verified(token, missing, invalid) ==
  IF token = "" THEN [out |-> missing, user |-> NoUser]
  ELSE IF verify(token).err THEN [out |-> invalid, user |-> NoUser]
  ELSE [out |-> "next", user |-> verify(token).user]

\* middleware/authenticateJWT.js: the Authorization header first, then the cookie
authenticateJWT(cred) ==
  LET token == IF bearer(cred.authorization) # "" THEN bearer(cred.authorization)
               ELSE cred.cookie
  IN  verified(token, "401 Unauthorized: No token provided", "403 Invalid or expired token")

\* authenticateJWTTechnician answering an invalid token as it answers none
authenticateJWTTechnicianOneMessage(cred) ==
  LET token == IF cred.cookie # "" THEN cred.cookie ELSE bearer(cred.authorization)
  IN  verified(token, "401 Unauthorized - No token provided",
                      "401 Unauthorized - No token provided")

\* routes/technician.js authenticateJWT: the cookie first, then the header
authenticateJWTTechnician(cred) ==
  LET token == IF cred.cookie # "" THEN cred.cookie ELSE bearer(cred.authorization)
  IN  verified(token, "401 Unauthorized - No token provided",
                      "401 Unauthorized - Invalid token")

\* app.js expectsJson: req.xhr, X-Requested-With, Accept or Content-Type
\* declare JSON, or the request has an Authorization header
expectsJson(cred) == cred.json \/ cred.authorization.scheme # ""

\* app.js authenticateJWT: the cookie first, then the header; a request that
\* does not expect JSON is redirected to the login page
authenticateJWTApp(cred) ==
  LET token == IF cred.cookie # "" THEN cred.cookie ELSE bearer(cred.authorization)
  IN  IF expectsJson(cred)
      THEN verified(token, "401 Unauthorized - No token provided",
                           "401 Unauthorized - Invalid token")
      ELSE verified(token, "redirect /login", "redirect /login")

\* A request of /planner/assign, /technician/start or a dashboard with the
\* credentials cred passes the middleware chain of its route: authenticateJWT
\* (the one its module uses), then requireRole where the route has it, then
\* the handler up to its first statement.
GuardedRoutes == {PLANNER_ASSIGN, TECH_START} \cup Dashboards
GuardedReceive(route, cred) ==
  LET auth == CASE route = PLANNER_ASSIGN -> authenticateJWT(cred)
                [] route = TECH_START -> authenticateJWTTechnician(cred)
                [] route \in Dashboards -> authenticateJWTApp(cred)
      role == CASE route = PLANNER_ASSIGN -> requireRole(AssignRoles, auth.user)
                [] route = TECH_START -> requireRole(WorkRoles, auth.user)
                [] route \in Dashboards -> "next"
      req  == CASE route = PLANNER_ASSIGN ->
                     Request(route, auth.user.globalId, 1, "T1", "", NoBody, "UPDATE")
                [] route = TECH_START ->
                     Request(route, auth.user.globalId, 1, "", "", NoBody, "UPDATE")
                [] route \in Dashboards ->
                     Request(route, auth.user.globalId, NoId, "", "", NoBody, "SELECT")
      r    == [req EXCEPT !.cred = cred]
  IN  IF auth.out # "next" THEN Reject(r, auth.out)
      ELSE IF role # "next" THEN Reject(r, role)
      ELSE Await(r)

\* ------------------------------------------------------------ subscribe, with credentials
\* what the requests of /notifications/subscribe present: nothing, a forged
\* cookie, the cookie of U1 or of P1, the header of U1 with the cookie of P1,
\* a forged header with the cookie of U1, the cookie of a claim without globalId
SubscribeCreds ==
  { NoCred,
    [NoCred EXCEPT !.cookie = "bad"],
    [NoCred EXCEPT !.cookie = "U1"],
    [NoCred EXCEPT !.cookie = "P1"],
    [NoCred EXCEPT !.authorization = [scheme |-> "Bearer", token |-> "U1"], !.cookie = "P1"],
    [NoCred EXCEPT !.authorization = [scheme |-> "Bearer", token |-> "bad"], !.cookie = "U1"],
    [NoCred EXCEPT !.cookie = "G0"] }
SubscribeBodies == { [endpoint |-> "e1", keys |-> "k1"], [endpoint |-> "e2", keys |-> "k1"] }

\* SubscribeReceive without the test of user.globalId: the list is stored
\* under the key the missing globalId is coerced to
SubscribeReceiveWithoutIdCheck(cred, subscription) ==
  LET auth == authenticateJWT(cred)
      user == auth.user
      userId == IF user.globalId = "" THEN "undefined" ELSE user.globalId
      r == [Request(SUBSCRIBE, user.globalId, NoId, "", "", NoBody, "")
              EXCEPT !.subscription = subscription, !.cred = cred]
      list == userSubsOf(subscriptionsPerUser, userId)
      list2 == IF exists(list, subscription) THEN list ELSE push(list, subscription)
  IN  IF auth.out # "next" THEN Reject(r, auth.out)
      ELSE /\ subscriptionsPerUser' =
                [ k \in DOMAIN subscriptionsPerUser \cup {userId} |->
                    IF k = userId THEN list2 ELSE subscriptionsPerUser[k] ]
           /\ last' = Answered(r, "201", NoNotification)
           /\ done' = NoCall
           /\ UNCHANGED <<tickets, pending, dispatches>>
           /\ UNCHANGED accounts

\* POST /notifications/subscribe through its middleware chain:
\* authenticateJWT of middleware/authenticateJWT.js, then the handler
SubscribeReceive(cred, subscription) ==
  LET auth == authenticateJWT(cred)
      user == auth.user
      userId == user.globalId
      r == [Request(SUBSCRIBE, userId, NoId, "", "", NoBody, "")
              EXCEPT !.subscription = subscription, !.cred = cred]
      list == userSubsOf(subscriptionsPerUser, userId)
      list2 == IF exists(list, subscription) THEN list ELSE push(list, subscription)
  IN  IF auth.out # "next" THEN Reject(r, auth.out)
      ELSE IF userId = "" THEN Reject(r, "401")
      ELSE /\ subscriptionsPerUser' =
                [ k \in DOMAIN subscriptionsPerUser \cup {userId} |->
                    IF k = userId THEN list2 ELSE subscriptionsPerUser[k] ]
           /\ last' = Answered(r, "201", NoNotification)
           /\ done' = NoCall
           /\ UNCHANGED <<tickets, pending, dispatches>>
           /\ UNCHANGED accounts

\* ------------------------------------------------------------ login, registration, password reset
\* The handlers of app.js (/login, /register/...) and of routes/forgot.js.
\* Their requests carry no token; body is req.body.  Each handler is one
\* step: the requests are served one after the other, and ok says whether the
\* statement the handler awaits succeeds.

\* String(globalId).trim(), on the ids the requests carry
trim(globalId) == IF globalId = " U1 " THEN "U1" ELSE globalId

\* SELECT ... FROM users WHERE global_id = ?: each row stands for its global_id
selectUser(id) ==
  IF id \in DOMAIN users THEN query(Arr(<<Str(id)>>), 1) ELSE query(Arr(<<>>), 0)

\* POST /login
Login(globalId, password, ok) ==
  LET r == [Request("/login", "", NoId, "", "", NoBody, "")
              EXCEPT !.body = [globalId |-> globalId, password |-> password]]
      id == trim(globalId)
      rows == runQuery(selectUser(id))
      user == At(rows, 0)
      row == users[user.s]
      payload == [globalId |-> row.global_id, role |-> row.department,
                  department |-> row.department, location |-> row.location]
  IN  /\ UNCHANGED accounts
      /\ IF globalId = "" \/ password = ""
         THEN Respond(r, "render login: Both fields are required")
         ELSE IF ~ok
         THEN Respond(r, "render login: Something went wrong. Check server logs.")
         ELSE IF ~Truthy(user) \/ row.password \in {NULL, ""}
         THEN Respond(r, "render login: Invalid Global ID or unregistered user")
         ELSE IF ~compare(password, row.password)
         THEN Respond(r, "render login: Incorrect password")
         ELSE Respond([r EXCEPT !.setCookie = payload],
                      CASE row.department = "admin" -> "redirect /dashboard/admin"
                        [] row.department = "technician" -> "redirect /dashboard/technician"
                        [] row.department = "planner" -> "redirect /dashboard/planner"
                        [] OTHER -> "redirect /dashboard/user")

\* POST /register/check
RegisterCheck(globalId, ok) ==
  LET r == [Request("/register/check", "", NoId, "", "", NoBody, "")
              EXCEPT !.body = [globalId |-> globalId]]
      id == trim(globalId)
      rows == runQuery(selectUser(id))
      user == At(rows, 0)
  IN  /\ UNCHANGED accounts
      /\ IF id = "" THEN Respond(r, "render register-id: Please enter Global ID")
         ELSE IF ~ok THEN Respond(r, "render register-id: Server error during check")
         ELSE IF ~Truthy(user)
         THEN Respond(r, "render register-id: Global ID not found. Contact admin.")
         ELSE IF users[user.s].password \notin {NULL, ""}
         THEN Respond(r, "render register-id: Already registered. Please login.")
         ELSE Respond(r, "render register-details")

\* POST /register/complete
RegisterComplete(globalId, password, ok) ==
  LET r == [Request("/register/complete", "", NoId, "", "", NoBody, "")
              EXCEPT !.body = [globalId |-> globalId, password |-> password]]
  IN  /\ UNCHANGED <<session, otpVerified, masterData>>
      /\ IF globalId = "" \/ password = ""
         THEN Respond(r, "400") /\ UNCHANGED users
         ELSE IF ~ok
         THEN Respond(r, "500") /\ UNCHANGED users
         ELSE /\ users' = [ g \in DOMAIN users |->
                  IF g = globalId THEN [users[g] EXCEPT !.password = hash(password)]
                  ELSE users[g] ]
              /\ Respond(r, "redirect /login")

\* POST /forgot-password.  db.query resolves to [recordset, result], so
\* rows.length is 2 and rows[0] is the recordset; raw["0"] is its first row.
\* app.js mounts no session middleware: req.session is undefined and the
\* assignment to req.session.resetOtp throws, which the handler catches.
ForgotPassword(globalId, otp, ok, sent) ==
  LET r == [Request("/forgot-password", "", NoId, "", "", NoBody, "")
              EXCEPT !.body = [globalId |-> globalId]]
      rows == selectUser(globalId)
      raw == IF Truthy(At(At(rows, 0), 0)) THEN At(At(rows, 0), 0) ELSE At(rows, 0)
      email == IF raw.t = "string" THEN users[raw.s].email ELSE NULL
  IN  /\ UNCHANGED <<users, otpVerified, masterData>>
      /\ IF globalId = ""
         THEN Respond(r, "render globalId: Please enter Global ID") /\ UNCHANGED session
         ELSE IF ~ok
         THEN Respond(r, "render globalId: Server error. Try again.") /\ UNCHANGED session
         ELSE IF Prop(rows, "length").n = 0
         THEN Respond(r, "render globalId: User not found") /\ UNCHANGED session
         ELSE IF email \in {NULL, ""}
         THEN /\ Respond(r, "render globalId: No e-mail registered for this user")
              /\ UNCHANGED session
         ELSE IF session.t = "undefined"
         THEN Respond(r, "render globalId: Server error. Try again.") /\ UNCHANGED session
         ELSE /\ session' = Obj([resetOtp |-> Str(otp), resetUserId |-> Str(globalId),
                                 otpExpiry |-> Num(1)])
              /\ IF sent THEN Respond(r, "render otp: OTP sent to your email.")
                 ELSE Respond(r, "render globalId: Server error. Try again.")

\* POST /forgot-password/verify-otp; inTime is Date.now() < req.session.otpExpiry.
\* The handler is synchronous and has no try: reading req.session.resetOtp of
\* an undefined session throws and Express answers 500.
VerifyOtp(globalId, otp, inTime) ==
  LET r == [Request("/forgot-password/verify-otp", "", NoId, "", "", NoBody, "")
              EXCEPT !.body = [globalId |-> globalId, otp |-> otp]]
      validOtp == Prop(session, "resetOtp") = Str(otp)
      validUser == Prop(session, "resetUserId") = Str(globalId)
      notExpired == Truthy(Prop(session, "otpExpiry")) /\ inTime
  IN  /\ UNCHANGED <<users, session, masterData>>
      /\ IF otp = ""
         THEN Respond(r, "render otp: Please enter OTP") /\ UNCHANGED otpVerified
         ELSE IF session.t = "undefined"
         THEN Respond(r, "500") /\ UNCHANGED otpVerified
         ELSE IF ~validOtp \/ ~validUser \/ ~notExpired
         THEN Respond(r, "render otp: Invalid or expired OTP") /\ UNCHANGED otpVerified
         ELSE /\ otpVerified' = otpVerified \cup {globalId}
              /\ Respond(r, "render setPassword")

\* POST /forgot-password/set-password.  The session is cleared after the
\* UPDATE, inside the try: with req.session undefined that throws and the
\* handler answers from its catch, the UPDATE done.
SetPassword(globalId, password, confirmPassword, ok) ==
  LET r == [Request("/forgot-password/set-password", "", NoId, "", "", NoBody, "")
              EXCEPT !.body = [globalId |-> globalId, password |-> password,
                               confirmPassword |-> confirmPassword]]
  IN  /\ UNCHANGED <<otpVerified, masterData>>
      /\ IF password = "" \/ confirmPassword = ""
         THEN /\ Respond(r, "render setPassword: Both password fields required")
              /\ UNCHANGED <<users, session>>
         ELSE IF password # confirmPassword
         THEN /\ Respond(r, "render setPassword: Passwords do not match")
              /\ UNCHANGED <<users, session>>
         ELSE IF ~ok
         THEN /\ Respond(r, "render setPassword: Could not update password")
              /\ UNCHANGED <<users, session>>
         ELSE /\ users' = [ g \in DOMAIN users |->
                  IF g = globalId THEN [users[g] EXCEPT !.password = hash(password)]
                  ELSE users[g] ]
              /\ IF session.t = "undefined"
                 THEN /\ Respond(r, "render setPassword: Could not update password")
                      /\ UNCHANGED session
                 ELSE /\ session' = Obj([resetOtp |-> NULL, resetUserId |-> NULL,
                                         otpExpiry |-> NULL])
                      /\ Respond(r, "redirect /login")

\* ------------------------------------------------------------ POST /dashboard/master/update
\* routes/master.js.  The request is received (authenticateJWT,
\* requireRole(['admin']) and the location test), awaits readMasterData,
\* replaces its entry in the object read, awaits writeMasterData and answers.

\* String.prototype.toLowerCase, on the location names in use
toLowerCase(str) ==
  CASE str \in {"Pune", "PUNE", "pune"} -> "pune"
    [] str \in {"Mumbai", "MUMBAI", "mumbai"} -> "mumbai"
    [] OTHER -> str

MasterReceive(c, requestedLocation, newLocationData) ==
  LET user == Claim[c]
      r == [Request("/dashboard/master/update", c, NoId, "", "", NoBody, "READ")
              EXCEPT !.body = [location |-> requestedLocation,
                               masterData |-> newLocationData]]
  IN  IF requireRole({"admin"}, user) # "next" THEN Reject(r, requireRole({"admin"}, user))
      ELSE IF toLowerCase(requestedLocation) # toLowerCase(user.location)
      THEN Reject(r, "403 Cannot update data for other locations")
      ELSE Await(r)

\* const allData = await readMasterData(), which resolves to {} when the file
\* cannot be read or parsed; allData[locationKey] = newLocationData
MasterRead(r, ok) ==
  LET user == Claim[r.caller]
      read == IF ok THEN masterData ELSE << >>
      matching == { key \in DOMAIN read : toLowerCase(key) = toLowerCase(user.location) }
      locationKey == IF matching # {} THEN CHOOSE key \in matching : TRUE
                     ELSE user.location
      allData == [ key \in DOMAIN read \cup {locationKey} |->
                     IF key = locationKey THEN r.body.masterData ELSE read[key] ]
  IN  /\ r \in pending /\ r.route = "/dashboard/master/update" /\ r.pc = "READ"
      /\ UNCHANGED tickets
      /\ Continue(r, [r EXCEPT !.pc = "WRITE", !.allData = allData])

\* const success = await writeMasterData(allData): the whole object replaces
\* the content of the file
MasterWrite(r, ok) ==
  LET written == { <<key, r.allData[key]>> : key \in
                     { k \in DOMAIN r.allData :
                         k \notin DOMAIN masterData \/ masterData[k] # r.allData[k] } }
      Seen(q) == { e \in q.committed : \A w \in written : w[1] # e[1] } \cup written
  IN  /\ r \in pending /\ r.route = "/dashboard/master/update" /\ r.pc = "WRITE"
      /\ masterData' = IF ok THEN r.allData ELSE masterData
      /\ pending' = IF ok THEN { [q EXCEPT !.committed = Seen(q)] : q \in pending \ {r} }
                    ELSE pending \ {r}
      /\ last' = Answered(r, IF ok THEN "200 Data updated successfully"
                             ELSE "500 Failed to update data", NoNotification)
      /\ done' = NoCall
      /\ UNCHANGED <<tickets, subscriptionsPerUser, dispatches, users, session, otpVerified>>

\* ------------------------------------------------------------ the system
\* Node runs one handler at a time; in Next a request is received only when
\* no other is in flight, so the requests are served one after the other.
Idle == pending = {}

Next ==
  \/ \E c \in Users, b \in SubmitBodies : Idle /\ SubmitReceive(c, b)
  \/ \E c \in Users, tid \in TicketIds, ex \in ExecuterIds :
       Idle /\ TicketAssignReceive(c, tid, ex)
  \/ \E c \in Users, tid \in TicketIds, ex \in ExecuterIds :
       Idle /\ PlannerAssignReceive(c, tid, ex)
  \/ \E c \in Users, tid \in TicketIds : Idle /\ TicketCompleteReceive(c, tid)
  \/ \E c \in Users, tid \in TicketIds : Idle /\ TechStartReceive(c, tid)
  \/ \E c \in Users, tid \in TicketIds, note \in Notes :
       Idle /\ TechCompleteReceive(c, tid, note)
  \/ \E r \in pending, ok \in BOOLEAN : SubmitInsert(r, ok)
  \/ \E r \in pending, ok \in BOOLEAN : TicketAssignUpdate(r, ok)
  \/ \E r \in pending, ok \in BOOLEAN : PlannerAssignUpdate(r, ok)
  \/ \E r \in pending, ok \in BOOLEAN : TicketCompleteSelect(r, ok)
  \/ \E r \in pending, ok \in BOOLEAN : TicketCompleteUpdate(r, ok)
  \/ \E r \in pending, ok \in BOOLEAN : TechStartUpdate(r, ok)
  \/ \E r \in pending, ok \in BOOLEAN : TechStartSelect(r, ok)
  \/ \E r \in pending, ok \in BOOLEAN : TechCompleteUpdate(r, ok)
  \/ \E r \in pending, ok \in BOOLEAN : TechCompleteSelect(r, ok)

Spec == Init /\ [][Next]_vars

\* Requests overlapping in time: up to MaxInFlight requests await the store
\* together and their statements interleave.  The runs start from a table
\* holding one Open ticket, as /ticket/submit leaves it, and race the two
\* assign routes on it.
ConcUsers == {"P1", "A1", "A2"}
ConcExecuters == {"T1", "T2"}
InitConc ==
  /\ tickets \in { <<NewRow(Claim[c].globalId, "Other",
                           [building_no |-> NULL, area_code |-> NULL,
                            sub_area |-> NULL, keyword |-> NULL],
                           Claim[c].location)>> : c \in {"U1", "A2"} }
  /\ pending = {}
  /\ last = NoAnswer
  /\ subscriptionsPerUser = << >>
  /\ dispatches = {}
  /\ done = NoCall
  /\ users = UsersTable
  /\ session = Undefined
  /\ otpVerified = {}
  /\ masterData = MasterFile

Room == Cardinality(pending) < MaxInFlight

NextConc ==
  \/ \E c \in ConcUsers, ex \in ConcExecuters : Room /\ TicketAssignReceive(c, 1, ex)
  \/ \E c \in ConcUsers, ex \in ConcExecuters : Room /\ PlannerAssignReceive(c, 1, ex)
  \/ \E r \in pending, ok \in BOOLEAN : TicketAssignUpdate(r, ok)
  \/ \E r \in pending, ok \in BOOLEAN : PlannerAssignUpdate(r, ok)

SpecConc == InitConc /\ [][NextConc]_vars

\* The dashboards, over the tables that submit and assign leave.
NextList ==
  \/ \E c \in Users, b \in SubmitBodies : Idle /\ SubmitReceive(c, b)
  \/ \E c \in Users, tid \in TicketIds, ex \in ExecuterIds :
       Idle /\ TicketAssignReceive(c, tid, ex)
  \/ \E c \in Users, route \in Dashboards : Idle /\ DashboardReceive(c, route)
  \/ \E r \in pending, ok \in BOOLEAN : SubmitInsert(r, ok)
  \/ \E r \in pending, ok \in BOOLEAN : TicketAssignUpdate(r, ok)
  \/ \E r \in pending, ok \in BOOLEAN : DashboardSelect(r, ok)
  \/ \E r \in pending, ok \in BOOLEAN : DashboardTechnicians(r, ok)

SpecList == Init /\ [][NextList]_vars

\* The registry and the deliveries: U1 and T1 subscribe (req.body is a
\* PushSubscription, its endpoint and its delivery keys) while U1 submits a
\* ticket, P1 assigns it to T1 and T1 starts and completes it; the deliveries
\* of up to MaxDispatch notifications settle in any order in between.
PushSubscribes ==
  { <<"U1", [endpoint |-> "e1", keys |-> "k1"]>>, <<"U1", [endpoint |-> "e1", keys |-> "k2"]>>,
    <<"U1", [endpoint |-> "e2", keys |-> "k1"]>>, <<"T1", [endpoint |-> "e1", keys |-> "k1"]>> }
PushBody == [category |-> "Plumbing", building_no |-> "", area_code |-> "",
             sub_area |-> "", keyword |-> ""]
NextPush ==
  \/ \E s \in PushSubscribes : Subscribe(s[1], s[2])
  \/ \E c \in dispatches, ok \in BOOLEAN : Deliver(c, ok)
  \/ Idle /\ SubmitReceive("U1", PushBody)
  \/ Idle /\ TicketAssignReceive("P1", 1, "T1")
  \/ Idle /\ TechStartReceive("T1", 1)
  \/ Idle /\ TicketCompleteReceive("T1", 1)
  \/ \E r \in pending : SubmitInsert(r, TRUE)
  \/ \E r \in pending : TicketAssignUpdate(r, TRUE)
  \/ \E r \in pending : TechStartUpdate(r, TRUE)
  \/ \E r \in pending : TechStartSelect(r, TRUE)
  \/ \E r \in pending : TicketCompleteSelect(r, TRUE)
  \/ \E r \in pending : TicketCompleteUpdate(r, TRUE)

SpecPush == Init /\ [][NextPush]_vars

\* The middleware chains: requests with any credentials reach the guarded
\* routes, over a table holding one Open ticket.
NextAuth ==
  \/ \E route \in GuardedRoutes, cred \in Creds : Idle /\ GuardedReceive(route, cred)
  \/ \E r \in pending, ok \in BOOLEAN : PlannerAssignUpdate(r, ok)
  \/ \E r \in pending, ok \in BOOLEAN : TechStartUpdate(r, ok)
  \/ \E r \in pending, ok \in BOOLEAN : TechStartSelect(r, ok)
  \/ \E r \in pending, ok \in BOOLEAN : DashboardSelect(r, ok)
  \/ \E r \in pending, ok \in BOOLEAN : DashboardTechnicians(r, ok)

SpecAuth == InitConc /\ [][NextAuth]_vars

\* The subscribe route alone, with credentials.
NextSubscribe ==
  \E cred \in SubscribeCreds, subscription \in SubscribeBodies :
    SubscribeReceive(cred, subscription)

SpecSubscribe == Init /\ [][NextSubscribe]_vars

\* Login, registration and password reset, served one after the other.
NextAccount ==
  \/ \E globalId \in {"", "U1", " U1 ", "A1", "X9"}, password \in {"", "pw1", "pw2"},
        ok \in BOOLEAN : Login(globalId, password, ok)
  \/ \E globalId \in {"", "U1", " U1 ", "A1", "X9"}, ok \in BOOLEAN :
       RegisterCheck(globalId, ok)
  \/ \E globalId \in {"", "U1", "A1", "X9"}, password \in {"", "pw1", "pw2"},
        ok \in BOOLEAN : RegisterComplete(globalId, password, ok)
  \/ \E globalId \in {"", "U1", "A1", "X9"}, otp \in {"111111", "222222"},
        ok \in BOOLEAN, sent \in BOOLEAN : ForgotPassword(globalId, otp, ok, sent)
  \/ \E globalId \in {"U1", "A1"}, otp \in {"", "111111", "222222"}, inTime \in BOOLEAN :
       VerifyOtp(globalId, otp, inTime)
  \/ \E globalId \in {"U1", "A1", "X9"}, password \in {"", "pw1", "pw2"},
        confirmPassword \in {"", "pw1", "pw2"}, ok \in BOOLEAN :
       SetPassword(globalId, password, confirmPassword, ok)

SpecAccount == Init /\ [][NextAccount]_vars

\* The master-data updates of the admins A1 (Pune) and A2 (Mumbai) and of the
\* planner P1, served one after the other in SpecMaster and overlapping, up
\* to MaxInFlight of them, in SpecMasterConc.
NextMaster ==
  \/ \E c \in {"A1", "A2", "P1"}, requestedLocation \in {"Pune", "PUNE", "Mumbai"},
        newLocationData \in {"d1", "d2"} :
       Idle /\ MasterReceive(c, requestedLocation, newLocationData)
  \/ \E r \in pending, ok \in BOOLEAN : MasterRead(r, ok)
  \/ \E r \in pending, ok \in BOOLEAN : MasterWrite(r, ok)

SpecMaster == Init /\ [][NextMaster]_vars

NextMasterConc ==
  \/ \E c \in {"A1", "A2"}, requestedLocation \in {"PUNE", "Mumbai"},
        newLocationData \in {"d1", "d2"} :
       Room /\ MasterReceive(c, requestedLocation, newLocationData)
  \/ \E r \in pending : MasterRead(r, TRUE)
  \/ \E r \in pending : MasterWrite(r, TRUE)

SpecMasterConc == Init /\ [][NextMasterConc]_vars

\* ------------------------------------------------------------ properties
Transitions == AssignRoutes \cup StartRoutes \cup CompleteRoutes
Exists(tid) == tid \in 1..Len(tickets)
Rank(status) ==
  CASE status = "Open" -> 0 [] status = "Assigned" -> 1
    [] status = "In Progress" -> 2 [] status = "Completed" -> 3

\* a technician, or an admin away from headquarters, acting on a ticket of
\* another location: the request was well formed and the store did not fail
OutOfScope(a) ==
  /\ a.req.route \in Transitions
  /\ Exists(a.req.ticketId)
  /\ tickets[a.req.ticketId].location # Claim[a.req.caller].location
  /\ a.resp \notin {"400", "500"}

\* C1: the location a submit stores is the location of the submitting caller's
\* identity claim, and no step of any request changes the location of a ticket
\* already stored.
C1_LocationFixedAtCreation ==
  [][ /\ Len(tickets') >= Len(tickets)
      /\ \A i \in 1..Len(tickets) : tickets'[i].location = tickets[i].location
      /\ \A i \in (Len(tickets) + 1)..Len(tickets') :
           /\ last'.req.route = SUBMIT
           /\ tickets'[i].location = Claim[last'.req.caller].location ]_vars

\* a ticket raised in Mumbai has been assigned, started and completed
C1_Witness ==
  \E i \in 1..Len(tickets) :
    /\ tickets[i].location = "Mumbai" /\ tickets[i].global_id = "A2"
    /\ tickets[i].status = "Completed" /\ tickets[i].completed_at # NULL
    /\ tickets[i].assigned_to # NULL /\ tickets[i].started_at # NULL

\* C2: a technician of another location who attempts start or complete on a
\* ticket is answered 404 and no row is changed.
C2_ForeignTechnicianNotFound ==
  ( /\ last.req.route \in StartRoutes \cup CompleteRoutes
    /\ Claim[last.req.caller].role = "technician"
    /\ OutOfScope(last) )
  => (last.resp = "404" /\ last.req.rows <= 0)

\* C3: a request whose UPDATE changed zero rows is answered 404.
C3_ZeroRowsIsNotFound ==
  (last.req.route \in Transitions /\ last.req.rows = 0) => last.resp = "404"

\* C4: an admin away from headquarters who attempts assign, start or complete
\* on a ticket of another location is answered 404 and no row is changed.
C4_BranchAdminOwnLocationOnly ==
  ( /\ last.req.route \in Transitions
    /\ Claim[last.req.caller].role = "admin"
    /\ Claim[last.req.caller].location # HQ
    /\ OutOfScope(last) )
  => (last.resp = "404" /\ last.req.rows <= 0)

\* C5: an assign by a headquarters admin on an existing ticket, whatever the
\* ticket's location, succeeds: one row is updated, the ticket is Assigned with
\* assigned_to the executer and planner_id the admin, and the answer is the
\* success redirect.
C5_HeadquartersAdminAssignsAnywhere ==
  ( /\ last.req.route \in AssignRoutes
    /\ Claim[last.req.caller].role = "admin"
    /\ Claim[last.req.caller].location = HQ
    /\ Exists(last.req.ticketId)
    /\ last.req.executerId # ""
    /\ last.resp # "500" )
  => /\ last.resp = OkPlanner
     /\ last.req.rows = 1
     /\ tickets[last.req.ticketId].status = "Assigned"
     /\ tickets[last.req.ticketId].assigned_to = last.req.executerId
     /\ tickets[last.req.ticketId].planner_id = Claim[last.req.caller].globalId

\* the headquarters admin has assigned a Mumbai ticket through /planner/assign
C5_Witness ==
  /\ last.req.route = PLANNER_ASSIGN /\ last.req.caller = "A1"
  /\ Exists(last.req.ticketId)
  /\ tickets[last.req.ticketId].location = "Mumbai"
  /\ last.resp = OkPlanner
  /\ tickets[last.req.ticketId].planner_id = "A1"

\* C6: an assign, start or complete by a normal_user is answered 403 in the
\* step that receives it, for any ticket id, and changes neither the table nor
\* the requests in flight.
C6_NormalUserForbidden ==
  [][ ( /\ last'.req.route \in Transitions
        /\ Claim[last'.req.caller].role = "normal_user" )
      => ( /\ last'.resp = "403"
           /\ last'.req.rows = -1
           /\ tickets' = tickets ) ]_vars

\* a normal_user was refused a start on a ticket that exists
C6_Witness ==
  /\ last.req.route = TECH_START /\ last.req.caller = "U1"
  /\ Exists(last.req.ticketId)
  /\ last.resp = "403"

\* C7: a submit of category Facility Service (or its alias Facility) with one
\* of the four fields empty is answered with the validation error, inserts no
\* row and calls no notification.
C7_FacilityFieldsRequired ==
  [][ ( /\ last'.req.route = SUBMIT
        /\ last'.req.body.category \in {"Facility", "Facility Service"}
        /\ \/ last'.req.body.building_no = "" \/ last'.req.body.area_code = ""
           \/ last'.req.body.sub_area = "" \/ last'.req.body.keyword = "" )
      => ( /\ last'.resp = ErrFields
           /\ last'.notify = NoNotification
           /\ tickets' = tickets ) ]_vars

\* a submit under the alias Facility without keyword was rejected
C7_Witness ==
  /\ last.req.route = SUBMIT
  /\ last.req.body.category = "Facility" /\ last.req.body.keyword = ""
  /\ last.req.body.building_no # ""
  /\ last.resp = ErrFields

\* C8: no step moves the status of a ticket backwards along
\* Open, Assigned, In Progress, Completed.
C8_StatusNeverMovesBack ==
  [][ \A i \in 1..Len(tickets) :
        Rank(tickets'[i].status) >= Rank(tickets[i].status) ]_vars

\* C9: a step that leaves a changed ticket In Progress found it Assigned, and
\* a step that leaves a changed ticket Completed found it In Progress.
C9_TransitionsFromPredecessorOnly ==
  [][ \A i \in 1..Len(tickets) :
        tickets'[i] # tickets[i] =>
          /\ tickets'[i].status = "In Progress" => tickets[i].status = "Assigned"
          /\ tickets'[i].status = "Completed" => tickets[i].status = "In Progress" ]_vars

\* C10: of two assigns of the same ticket in flight together, an assign
\* answered after the other was answered with success is answered 404 and
\* calls no notification.
C10_OneConcurrentAssignWins ==
  (last.req.route \in AssignRoutes /\ last.req.rival /\ last.resp # "500")
  => (last.resp = "404" /\ last.notify = NoNotification)

\* the role list of a transition route, and the headquarters admin
RouteRoles(route) == IF route \in AssignRoutes THEN AssignRoles ELSE WorkRoles
IsHQAdmin(user) == user.role = "admin" /\ user.location = HQ

\* C11: a transition by a caller whose role the route allows and who is not a
\* headquarters admin, on a ticket of another location, ends as the same
\* transition on an id that names no ticket is specified to end: it is
\* answered 404, changes no row and calls no notification.
C11_OutOfScopeAsMissing ==
  ( /\ last.req.route \in Transitions
    /\ Claim[last.req.caller].role \in RouteRoles(last.req.route)
    /\ ~IsHQAdmin(Claim[last.req.caller])
    /\ OutOfScope(last) )
  => ( /\ last.resp = "404"
       /\ last.req.rows <= 0
       /\ last.notify = NoNotification )

\* C14: every ticket has completed_at set exactly when its status is
\* Completed.
C14_CompletedAtIffCompleted ==
  \A i \in 1..Len(tickets) :
    (tickets[i].completed_at # NULL) <=> (tickets[i].status = "Completed")

\* C15: a ticket whose assigned_to or planner_id is not NULL is not Open.
C15_AssigneeImpliesAssigned ==
  \A i \in 1..Len(tickets) :
    (tickets[i].assigned_to # NULL \/ tickets[i].planner_id # NULL)
      => tickets[i].status \in {"Assigned", "In Progress", "Completed"}

\* a ticket assigned by the planner has been started
C15_Witness ==
  \E i \in 1..Len(tickets) :
    /\ tickets[i].assigned_to = "T1" /\ tickets[i].planner_id = "P1"
    /\ tickets[i].status = "In Progress"

\* the visibility rule: a headquarters admin, or a requester of the ticket's
\* location who raised it, is assigned to it, or is a planner or an admin
Visible(user, row) ==
  \/ IsHQAdmin(user)
  \/ /\ user.location = row.location
     /\ \/ user.globalId \in {row.global_id, row.assigned_to}
        \/ user.role \in {"planner", "admin"}

\* C12: every ticket a dashboard renders to a requester is visible to that
\* requester under the visibility rule.
C12_DashboardsShowVisibleOnly ==
  (last.req.route \in Dashboards /\ last.resp = Render)
  => \A i \in last.req.list : Visible(Claim[last.req.caller], tickets[i])

\* C13: every request that listed or updated tickets ran its statement without
\* a location filter when the caller is an admin at headquarters and with the
\* filter on the caller's location otherwise, and /dashboard/planner lists the
\* technicians of every location to the former and of the caller's location
\* to everyone else.
C13_OneLocationFilterPredicate ==
  /\ last.req.scope # ""
     => last.req.scope = ( IF IsHQAdmin(Claim[last.req.caller]) THEN NoScope
                           ELSE Claim[last.req.caller].location )
  /\ (last.req.route = DASH_PLANNER /\ last.resp = Render)
     => last.req.technicians =
          ( IF IsHQAdmin(Claim[last.req.caller]) THEN Staff
            ELSE { u \in Staff : Claim[u].location = Claim[last.req.caller].location } )

\* the endpoints stored for an owner, in the order of the list
EndpointsOf(subs, owner) ==
  IF owner \in DOMAIN subs THEN [ i \in 1..Len(subs[owner]) |-> subs[owner][i].endpoint ]
  ELSE <<>>
Range(f) == { f[i] : i \in DOMAIN f }

\* C16: a subscribe answered 201 leaves exactly one entry with its endpoint in
\* the owner's list, whatever the delivery keys; the list keeps its length
\* when an entry with that endpoint was stored before and is one longer
\* otherwise.
C16_RegisterOncePerEndpoint ==
  [][ (last'.req.route = SUBSCRIBE /\ last'.resp = "201")
      => LET owner == Claim[last'.req.caller].globalId
             e == last'.req.subscription.endpoint
             before == EndpointsOf(subscriptionsPerUser, owner)
             after == EndpointsOf(subscriptionsPerUser', owner)
         IN  /\ Cardinality({ i \in DOMAIN after : after[i] = e }) = 1
             /\ Len(after) = Len(before) + (IF e \in Range(before) THEN 0 ELSE 1) ]_vars

\* U1 registered e2 and e1, then e1 again with other delivery keys: two entries
C16_Witness ==
  /\ last.req.route = SUBSCRIBE /\ last.req.caller = "U1"
  /\ last.req.subscription = [endpoint |-> "e1", keys |-> "k2"]
  /\ "U1" \in DOMAIN subscriptionsPerUser
  /\ subscriptionsPerUser["U1"] =
       << [endpoint |-> "e2", keys |-> "k1"], [endpoint |-> "e1", keys |-> "k1"] >>

\* C17: whatever the order in which subscribes and the deliveries of the
\* notifications in flight take their steps, no owner's list ever holds two
\* entries with the same endpoint, and no step removes, replaces or reorders
\* an entry of any list.
C17_RegistryAtomicPerOwner ==
  /\ [](\A k \in DOMAIN subscriptionsPerUser :
          \A i, j \in 1..Len(subscriptionsPerUser[k]) :
            subscriptionsPerUser[k][i].endpoint = subscriptionsPerUser[k][j].endpoint => i = j)
  /\ [][ \A k \in DOMAIN subscriptionsPerUser :
            /\ k \in DOMAIN subscriptionsPerUser'
            /\ Len(subscriptionsPerUser'[k]) >= Len(subscriptionsPerUser[k])
            /\ \A i \in 1..Len(subscriptionsPerUser[k]) :
                 subscriptionsPerUser'[k][i] = subscriptionsPerUser[k][i] ]_vars

\* U1 registered a second endpoint while a notification to U1 awaited the
\* delivery to the first, and a notification to T1 was in flight as well
C17_Witness ==
  /\ last.req.route = SUBSCRIBE /\ last.req.caller = "U1" /\ last.resp = "201"
  /\ Len(EndpointsOf(subscriptionsPerUser, "U1")) = 2
  /\ \E c \in dispatches : c.target = "U1" /\ c.i = 1 /\ c.attempts = <<>>
  /\ \E c \in dispatches : c.target = "T1"

\* C18: a sendNotificationToUser call for a target without an entry in the
\* registry, the target undefined included, completes in the step that makes
\* it, with no delivery attempted, and leaves no delivery in flight for it.
C18_NotifyUnregisteredIsNoOp ==
  (last.notify # NoNotification /\ last.notify \notin DOMAIN subscriptionsPerUser)
  => ( /\ done = Call(0, last.notify, 1, <<>>)
       /\ \A c \in dispatches : c.target # last.notify )

\* /ticket/complete notified the target undefined while others are registered
C18_Witness ==
  /\ last.req.route = TICKET_COMPLETE /\ last.notify = "undefined"
  /\ DOMAIN subscriptionsPerUser = {"U1", "T1"}
  /\ done.target = "undefined" /\ done.attempts = <<>>

\* C19: a sendNotificationToUser call that completes has attempted one
\* delivery to each endpoint registered for its target, in the order of the
\* list, whether the deliveries succeeded or failed.
C19_EveryEndpointAttemptedOnce ==
  done # NoCall
  => [ i \in 1..Len(done.attempts) |-> done.attempts[i].endpoint ]
       = EndpointsOf(subscriptionsPerUser, done.target)

\* a notification to U1 completed after a failed and a successful delivery
C19_Witness ==
  /\ done.target = "U1" /\ Len(done.attempts) = 2
  /\ ~done.attempts[1].ok /\ done.attempts[2].ok
  /\ done.attempts[1].endpoint # done.attempts[2].endpoint

\* C20: a step in which a delivery settles, with success or with failure,
\* answers no request and changes neither the tickets table nor the requests
\* in flight: the response and the row a transition wrote stay as they were
\* when the handler answered.
C20_DeliveryOutcomeNotSurfaced ==
  [][ (\E c \in dispatches : c \notin dispatches')
      => ( /\ last' = NoAnswer
           /\ tickets' = tickets
           /\ pending' = pending ) ]_vars

\* the only delivery of the assign notification to T1 failed and the ticket
\* is Assigned to T1
C20_Witness ==
  /\ done.target = "T1" /\ Len(done.attempts) = 1 /\ ~done.attempts[1].ok
  /\ Len(tickets) = 1 /\ tickets[1].status = "Assigned" /\ tickets[1].assigned_to = "T1"

\* C22: a request that calls sendNotificationToUser has inserted or updated a
\* row of the tickets table.
C22_NotifyOnlyAfterAppliedTransition ==
  last.notify # NoNotification => last.req.rows >= 1

\* C23: a submit or transition that changed a row and is answered with success
\* has notified the raiser (submit, start, complete) or the executer of the
\* request (assign).
C23_NotifiesTheNamedTarget ==
  ( /\ last.req.route \in {SUBMIT} \cup Transitions
    /\ last.resp \in SuccessResponses
    /\ last.req.rows = 1 )
  => last.notify =
       ( IF last.req.route = SUBMIT THEN Claim[last.req.caller].globalId
         ELSE IF last.req.route \in AssignRoutes THEN last.req.executerId
         ELSE tickets[last.req.ticketId].global_id )

\* C24: a submit or transition answered with a failure (500, or the failure
\* redirect of submit) has changed no row of the tickets table.
C24_FailureCommitsNothing ==
  ( /\ last.req.route \in {SUBMIT} \cup Transitions
    /\ last.resp \in {"500", ErrSubmit} )
  => last.req.rows <= 0

\* C25: the category of every stored ticket is one of Facility Service,
\* Breakdown, Safety and Other.
C25_CategoryIsEnumerated ==
  \A i \in 1..Len(tickets) :
    tickets[i].category \in {"Facility Service", "Breakdown", "Safety", "Other"}

\* C21: a request answered after calling sendNotificationToUser for a target
\* with registered endpoints is answered with its success response and is no
\* longer in flight while the call still awaits its first delivery.
C21_AnsweredBeforeDelivery ==
  (last.notify # NoNotification /\ last.notify \in DOMAIN subscriptionsPerUser)
  => ( /\ last.resp \in SuccessResponses
       /\ \A q \in pending : q.caller # last.req.caller \/ q.route # last.req.route
       /\ \E c \in dispatches : c.target = last.notify /\ c.i = 1 /\ c.attempts = <<>> )

\* the assign was answered while its notification to T1 and an earlier one to
\* U1 both await a delivery
C21_Witness ==
  /\ last.req.route = TICKET_ASSIGN /\ last.resp = OkPlanner /\ last.notify = "T1"
  /\ pending = {}
  /\ \E c \in dispatches : c.target = "T1" /\ c.attempts = <<>>
  /\ \E c \in dispatches : c.target = "U1"

\* C30: every step keeps each stored entry at its place in its owner's list,
\* and only a subscribe answered 201 changes the registry at all.
C30_RegistryOnlyGrows ==
  [][ /\ \A k \in DOMAIN subscriptionsPerUser :
           /\ k \in DOMAIN subscriptionsPerUser'
           /\ Len(subscriptionsPerUser'[k]) >= Len(subscriptionsPerUser[k])
           /\ \A i \in 1..Len(subscriptionsPerUser[k]) :
                subscriptionsPerUser'[k][i] = subscriptionsPerUser[k][i]
      /\ ~(last'.req.route = SUBSCRIBE /\ last'.resp = "201")
           => subscriptionsPerUser' = subscriptionsPerUser ]_vars

\* U1 registered e1 again with other delivery keys after a delivery to e1
\* failed: the entry stored first is still the only one
C30_Witness ==
  /\ last.req.route = SUBSCRIBE /\ last.req.caller = "U1"
  /\ last.req.subscription = [endpoint |-> "e1", keys |-> "k2"]
  /\ "U1" \in DOMAIN subscriptionsPerUser
  /\ subscriptionsPerUser["U1"] = << [endpoint |-> "e1", keys |-> "k1"] >>
  /\ Len(tickets) = 1 /\ tickets[1].status = "Completed"

\* C29: the steps of the scenario do what it says, the store not failing.
\* The submit of U1 (Pune) with all Facility Service fields appends an Open
\* ticket of Pune raised by U1 and notifies U1.  An assign by P1 to T1 of such
\* a ticket, Open, leaves it Assigned with assigned_to T1 and planner_id P1 and
\* notifies T1.  The /technician/start of T1 on it, Assigned to T1, sets In
\* Progress and started_at and notifies U1.  The /technician/complete of T1
\* with a note on it, In Progress, sets Completed, completed_at and the note
\* and notifies U1.
C29_LifecycleScenario ==
  [][ LET Scen(row) == /\ row.global_id = "U1" /\ row.location = "Pune"
                       /\ row.category = "Facility Service"
          q == last'.req
          tid == q.ticketId
      IN
      /\ ( /\ q.route = SUBMIT /\ q.caller = "U1" /\ last'.resp # ErrSubmit
           /\ q.body = [category |-> "Facility Service", building_no |-> "B1",
                         area_code |-> "A1", sub_area |-> "S1", keyword |-> "leak"] )
         => ( /\ Len(tickets') = Len(tickets) + 1
              /\ Scen(tickets'[Len(tickets')])
              /\ tickets'[Len(tickets')].status = "Open"
              /\ last'.resp = OkUser /\ last'.notify = "U1" )
      /\ ( /\ q.route \in AssignRoutes /\ q.caller = "P1" /\ q.executerId = "T1"
           /\ last'.resp # "500" /\ Exists(tid)
           /\ Scen(tickets[tid]) /\ tickets[tid].status = "Open" )
         => ( /\ tickets'[tid] = [tickets[tid] EXCEPT !.status = "Assigned",
                                    !.assigned_to = "T1", !.planner_id = "P1"]
              /\ last'.resp = OkPlanner /\ last'.notify = "T1" )
      /\ \A r \in pending :
           ( /\ r.route \in {TECH_START, TECH_COMPLETE} /\ r.pc = "UPDATE"
             /\ r.caller = "T1" /\ last'.resp # "500" /\ Exists(r.ticketId)
             /\ Scen(tickets[r.ticketId]) /\ tickets[r.ticketId].assigned_to = "T1" )
           => /\ (r.route = TECH_START /\ tickets[r.ticketId].status = "Assigned")
                 => tickets'[r.ticketId] =
                      [tickets[r.ticketId] EXCEPT !.status = "In Progress", !.started_at = Now]
              /\ ( /\ r.route = TECH_COMPLETE /\ r.completion_note = "fixed"
                   /\ tickets[r.ticketId].status = "In Progress" )
                 => tickets'[r.ticketId] =
                      [tickets[r.ticketId] EXCEPT !.status = "Completed",
                         !.completed_at = Now, !.completion_note = "fixed"]
      /\ ( /\ q.route \in {TECH_START, TECH_COMPLETE} /\ q.pc = "SELECT"
           /\ q.caller = "T1" /\ last'.resp # "500" /\ Exists(tid)
           /\ Scen(tickets[tid]) )
         => ( /\ last'.resp = OkTechnician /\ last'.notify = "U1"
              /\ tickets' = tickets ) ]_vars

\* the scenario has run to its end: T1's complete with the note was answered
C29_Witness ==
  /\ last.req.route = TECH_COMPLETE /\ last.req.caller = "T1"
  /\ last.resp = OkTechnician /\ last.notify = "U1"
  /\ Len(tickets) = 1
  /\ tickets[1].global_id = "U1" /\ tickets[1].category = "Facility Service"
  /\ tickets[1].location = "Pune" /\ tickets[1].status = "Completed"
  /\ tickets[1].assigned_to = "T1" /\ tickets[1].planner_id = "P1"
  /\ tickets[1].started_at # NULL /\ tickets[1].completed_at # NULL
  /\ tickets[1].completion_note = "fixed" /\ tickets[1].keyword = "leak"

\* C26: a request that carries both a Bearer token in its Authorization
\* header and a token cookie is authenticated by the header's token, on every
\* guarded route: it is let through only as the identity the header's token
\* carries (a token is named after the globalId it was signed for).
C26_HeaderWins ==
  \A r \in pending \cup {last.req} :
    ( /\ r.route \in GuardedRoutes
      /\ r.cred.authorization.scheme = "Bearer" /\ r.cred.authorization.token # ""
      /\ r.cred.cookie # ""
      /\ r.caller # "" )
    => r.caller = r.cred.authorization.token

\* C27 as stated: on every guarded route a request that presents no token (no
\* Bearer token in the header, no cookie) is answered with a response that
\* says so, a request whose presented tokens all fail verification with a
\* response that says that, the two responses differ, and in both cases
\* req.user is not set and the handler does not run (the request is never in
\* flight, changes no row and notifies nobody).
C27_RejectionsDistinguished ==
  LET Presented(cred) ==
        (IF cred.authorization.scheme = "Bearer" /\ cred.authorization.token # ""
         THEN {cred.authorization.token} ELSE {})
          \cup (IF cred.cookie # "" THEN {cred.cookie} ELSE {})
      Missing(cred) == Presented(cred) = {}
      Invalid(cred) == Presented(cred) # {} /\ Presented(cred) \cap DOMAIN Claim = {}
      SaysMissing == {"401 Unauthorized: No token provided",
                      "401 Unauthorized - No token provided"}
      SaysInvalid == {"403 Invalid or expired token", "401 Unauthorized - Invalid token"}
      q == last.req
  IN  /\ \A r \in pending :
           r.route \in GuardedRoutes => ~Missing(r.cred) /\ ~Invalid(r.cred)
      /\ (q.route \in GuardedRoutes /\ (Missing(q.cred) \/ Invalid(q.cred)))
           => /\ q.caller = "" /\ q.rows = -1 /\ last.notify = NoNotification
              /\ Missing(q.cred) => last.resp \in SaysMissing
              /\ Invalid(q.cred) => last.resp \in SaysInvalid

\* C27 amended: the same, except that a dashboard request that does not expect
\* JSON (it declares no JSON and has no Authorization header) is redirected
\* to the login page in both cases.
C27_RejectionsDistinguishedForJson ==
  LET Presented(cred) ==
        (IF cred.authorization.scheme = "Bearer" /\ cred.authorization.token # ""
         THEN {cred.authorization.token} ELSE {})
          \cup (IF cred.cookie # "" THEN {cred.cookie} ELSE {})
      Missing(cred) == Presented(cred) = {}
      Invalid(cred) == Presented(cred) # {} /\ Presented(cred) \cap DOMAIN Claim = {}
      SaysMissing == {"401 Unauthorized: No token provided",
                      "401 Unauthorized - No token provided"}
      SaysInvalid == {"403 Invalid or expired token", "401 Unauthorized - Invalid token"}
      q == last.req
      Navigation == /\ q.route \in Dashboards
                    /\ ~q.cred.json /\ q.cred.authorization.scheme = ""
  IN  /\ \A r \in pending :
           r.route \in GuardedRoutes => ~Missing(r.cred) /\ ~Invalid(r.cred)
      /\ (q.route \in GuardedRoutes /\ (Missing(q.cred) \/ Invalid(q.cred)))
           => /\ q.caller = "" /\ q.rows = -1 /\ last.notify = NoNotification
              /\ Navigation => last.resp = "redirect /login"
              /\ (~Navigation /\ Missing(q.cred)) => last.resp \in SaysMissing
              /\ (~Navigation /\ Invalid(q.cred)) => last.resp \in SaysInvalid

\* a dashboard request that declares JSON and carries a forged cookie was
\* answered 401 "Invalid token" with req.user unset
C27_Witness ==
  /\ last.req.route = DASH_USER
  /\ last.req.cred = [authorization |-> [scheme |-> "", token |-> ""],
                      cookie |-> "bad", json |-> TRUE]
  /\ last.resp = "401 Unauthorized - Invalid token"
  /\ last.req.caller = "" /\ pending = {}

\* C28: on the routes guarded by requireRole, a request whose token verified
\* reaches the handler if and only if the role of its claim, or its
\* department when the claim has no role, is one of the allowed roles, and is
\* answered 403 without the handler running otherwise; with req.user unset
\* requireRole answers 401.
C28_RequireRoleDecides ==
  LET Allowed(route) == IF route = PLANNER_ASSIGN THEN {"planner", "admin"}
                        ELSE {"technician", "planner", "admin"}
      RoleOf(u) == IF Claim[u].role # "" THEN Claim[u].role ELSE Claim[u].department
      q == last.req
  IN  /\ \A r \in pending :
           r.route \in {PLANNER_ASSIGN, TECH_START}
             => r.caller \in DOMAIN Claim /\ RoleOf(r.caller) \in Allowed(r.route)
      /\ (q.route \in {PLANNER_ASSIGN, TECH_START} /\ q.caller # "")
           => IF RoleOf(q.caller) \in Allowed(q.route)
              THEN last.resp \notin {"401", "403"}
              ELSE /\ last.resp = "403"
                   /\ q.rows = -1 /\ last.notify = NoNotification
      /\ \A route \in {PLANNER_ASSIGN, TECH_START} :
           requireRole(Allowed(route), NoUser) = "401"

\* the claim of L1 has a department, planner, and no role: its /planner/assign
\* passed requireRole and was served
C28_Witness ==
  /\ last.req.route = PLANNER_ASSIGN /\ last.req.caller = "L1"
  /\ last.req.cred.cookie = "L1"
  /\ last.resp = OkPlanner /\ last.req.rows = 1

\* C31: a list of the registry is created or changed only by a subscribe
\* request answered 201, and then it is the list of the globalId that the
\* verified token of the request carries (the header's token when it has one,
\* else the cookie's): a request with no token, a forged token or a claim
\* without globalId changes no list, and no request changes another owner's.
C31_SubscribeChangesOwnListOnly ==
  [][ \A k \in DOMAIN subscriptionsPerUser \cup DOMAIN subscriptionsPerUser' :
        ( \/ k \notin DOMAIN subscriptionsPerUser
          \/ k \notin DOMAIN subscriptionsPerUser'
          \/ subscriptionsPerUser'[k] # subscriptionsPerUser[k] )
        => LET q == last'.req
               h == q.cred.authorization
               token == IF h.scheme = "Bearer" /\ h.token # "" THEN h.token
                        ELSE q.cred.cookie
           IN  /\ q.route = SUBSCRIBE /\ last'.resp = "201"
               /\ token \in DOMAIN Claim
               /\ Claim[token].globalId # ""
               /\ k = Claim[token].globalId ]_vars

\* U1 subscribed with its token in the header next to the cookie of P1, who
\* had subscribed e1 before: the entry went to U1's list and P1's is as it was
C31_Witness ==
  /\ last.req.route = SUBSCRIBE /\ last.resp = "201"
  /\ last.req.cred.authorization.token = "U1" /\ last.req.cred.cookie = "P1"
  /\ last.req.subscription.endpoint = "e2"
  /\ DOMAIN subscriptionsPerUser = {"U1", "P1"}
  /\ subscriptionsPerUser["U1"] = << [endpoint |-> "e2", keys |-> "k1"] >>
  /\ subscriptionsPerUser["P1"] = << [endpoint |-> "e1", keys |-> "k1"] >>

\* C32: a step of set-password changes the stored password of a globalId only
\* if verify-otp has succeeded for that globalId before, in the same session.
C32_PasswordResetNeedsVerifiedOtp ==
  [][ \A g \in DOMAIN users :
        ( /\ last'.req.route = "/forgot-password/set-password"
          /\ users'[g].password # users[g].password )
        => g \in otpVerified ]_vars

\* C33: no request of the registration flow changes the password of a user
\* who has one.
C33_RegistrationKeepsPasswords ==
  [][ \A g \in DOMAIN users :
        ( /\ last'.req.route \in {"/register/check", "/register/complete"}
          /\ users[g].password # NULL )
        => users'[g].password = users[g].password ]_vars

\* C34: the response of /login sets the token cookie exactly when it is the
\* redirect to a dashboard, and then the supplied globalId, blanks around it
\* removed, is the global_id of a users row that has a password, the supplied
\* password is the one that stored hash was made from, and the claim signed
\* carries that row's global_id, department (as role) and location.
C34_LoginIssuesOnlyOnMatch ==
  LET q == last.req
      g == trim(q.body.globalId)
      Redirects == {"redirect /dashboard/admin", "redirect /dashboard/technician",
                    "redirect /dashboard/planner", "redirect /dashboard/user"}
  IN  q.route = "/login"
        => /\ (q.setCookie # NoUser) <=> (last.resp \in Redirects)
           /\ (q.setCookie # NoUser)
                => /\ g \in DOMAIN users
                   /\ users[g].password \notin {NULL, ""}
                   /\ users[g].password = hash(q.body.password)
                   /\ q.setCookie.globalId = users[g].global_id
                   /\ q.setCookie.role = users[g].department
                   /\ q.setCookie.location = users[g].location

\* A1 completed the registration with pw2 and then logged in with it: the
\* cookie carries the claim of A1, admin of Pune
C34_Witness ==
  /\ last.req.route = "/login" /\ last.resp = "redirect /dashboard/admin"
  /\ last.req.body = [globalId |-> "A1", password |-> "pw2"]
  /\ last.req.setCookie = [globalId |-> "A1", role |-> "admin", department |-> "admin",
                           location |-> "Pune"]
  /\ users["A1"].password = hash("pw2")

\* C35: a step changes the assigned_to of a ticket only to a user that the
\* planner dashboard offers to the caller of the assign: a row of users whose
\* department is technician, planner or admin and whose location is the
\* caller's (any location for the admin of the headquarters); an assign
\* naming anybody else leaves the ticket as it was.
C35_AssigneeIsOfferedTechnician ==
  [][ \A i \in 1..Len(tickets) :
        tickets'[i].assigned_to # tickets[i].assigned_to
          => /\ last'.req.route \in AssignRoutes
             /\ tickets'[i].assigned_to \in
                  ( IF IsHQAdmin(Claim[last'.req.caller]) THEN Staff
                    ELSE selectTechnicians(Claim[last'.req.caller]) ) ]_vars

\* C36: a master-data update of an admin that names a location other than the
\* admin's own, compared without regard to case, is answered 403 and writes
\* nothing; a step that changes the stored master data is the answer to the
\* update of an admin and leaves the entry of every other location as it was.
C36_UpdateTouchesOwnLocationOnly ==
  [][ LET q == last'.req
          own == toLowerCase(Claim[q.caller].location)
      IN  /\ ( /\ q.route = "/dashboard/master/update"
               /\ Claim[q.caller].role = "admin"
               /\ toLowerCase(q.body.location) # own )
             => (last'.resp = "403 Cannot update data for other locations"
                   /\ masterData' = masterData)
          /\ masterData' # masterData
             => /\ q.route = "/dashboard/master/update"
                /\ Claim[q.caller].role = "admin"
                /\ \A key \in DOMAIN masterData :
                     toLowerCase(key) # own
                       => key \in DOMAIN masterData' /\ masterData'[key] = masterData[key] ]_vars

\* C37: when an update is answered with success, every entry that an update of
\* another location wrote with success while this one was in flight is still
\* in the stored master data.
C37_ConcurrentUpdatesBothKept ==
  LET q == last.req
  IN  (q.route = "/dashboard/master/update" /\ last.resp = "200 Data updated successfully")
        => \A e \in q.committed :
             toLowerCase(e[1]) # toLowerCase(Claim[q.caller].location)
               => e[1] \in DOMAIN masterData /\ masterData[e[1]] = e[2]

====
